---- MODULE Spec2Model ----
(***************************************************************************)
(* OSUtils.unzip of aws_lambda_builders/workflows/dotnet_clipackage/utils.py *)
(* as a state machine over a small POSIX file tree.                         *)
(*                                                                         *)
(* The output directory is the root of the tree; a location is the list of *)
(* names below it.  Path lookups follow symbolic links the way the kernel  *)
(* does, so two paths may name one object.  Any system call may in         *)
(* addition be failed by the environment (permission denied, disk full).   *)
(***************************************************************************)
EXTENDS Integers, Sequences, FiniteSets, TLC

\* ---------------------------------------------------------------- bounds
MaxEntries == 2
MaxDepth == 2
MaxHops == 2

Names == {"a", "b"}

\* ------------------------------------------------------- file tree basics
NoErr == "none"
Root == << >>
Unbound == << "<unbound>" >>
None == -1

RECURSIVE PathsUpTo(_)
PathsUpTo(n) ==
    IF n = 0 THEN {<< >>}
    ELSE PathsUpTo(n - 1) \cup {Append(p, x) : p \in PathsUpTo(n - 1), x \in Names}

Loc == PathsUpTo(MaxDepth)

S_IFREG == 32768
S_IFDIR == 16384
S_IFLNK == 40960
DefaultFileMode == 420
DefaultDirMode == 493
LinkMode == 511

Absent == [kind |-> "none", mode |-> 0, data |-> << >>, target |-> ""]
DirNode(m) == [kind |-> "dir", mode |-> m, data |-> << >>, target |-> ""]
FileNode(m, d) == [kind |-> "file", mode |-> m, data |-> d, target |-> ""]
LinkNode(t) == [kind |-> "link", mode |-> LinkMode, data |-> << >>, target |-> t]

Front(p) == SubSeq(p, 1, Len(p) - 1)

\* st_mode as lstat reports it: the type bits of the object plus its
\* permission bits.
StMode(node) ==
    CASE node.kind = "file" -> S_IFREG + node.mode
      [] node.kind = "dir" -> S_IFDIR + node.mode
      [] node.kind = "link" -> S_IFLNK + node.mode
      [] OTHER -> 0

RECURSIVE Walk(_, _, _, _, _)
Walk(f, cur, rest, follow, fuel) ==
    IF rest = << >> THEN [st |-> "ok", loc |-> cur]
    ELSE LET child == Append(cur, Head(rest))
             last == Len(rest) = 1
         IN IF child \notin Loc THEN [st |-> "enoent", loc |-> cur]
            ELSE CASE f[child].kind = "none" ->
                        [st |-> IF last THEN "absent" ELSE "enoent", loc |-> child]
                   [] f[child].kind = "dir" ->
                        Walk(f, child, Tail(rest), follow, fuel)
                   [] f[child].kind = "file" ->
                        [st |-> IF last THEN "ok" ELSE "enotdir", loc |-> child]
                   [] OTHER ->
                        IF last /\ ~follow THEN [st |-> "ok", loc |-> child]
                        ELSE IF fuel = 0 THEN [st |-> "eloop", loc |-> child]
                        ELSE Walk(f, cur, << f[child].target >> \o Tail(rest),
                                  follow, fuel - 1)

\* The object a path below the output directory names; follow says whether
\* a symbolic link in the last component is followed.
Resolve(f, p, follow) ==
    IF f[Root].kind = "none"
    THEN [st |-> IF p = Root THEN "absent" ELSE "enoent", loc |-> Root]
    ELSE Walk(f, Root, p, follow, MaxHops)

ErrOf(st) ==
    CASE st = "enoent" -> "FileNotFoundError"
      [] st = "absent" -> "FileNotFoundError"
      [] st = "enotdir" -> "NotADirectoryError"
      [] OTHER -> "OSError"

Exists(f, p) == Resolve(f, p, TRUE).st = "ok"
LExists(f, p) == Resolve(f, p, FALSE).st = "ok"
IsLink(f, p) ==
    LET r == Resolve(f, p, FALSE) IN r.st = "ok" /\ f[r.loc].kind = "link"
IsDir(f, p) ==
    LET r == Resolve(f, p, TRUE) IN r.st = "ok" /\ f[r.loc].kind = "dir"

Res(f, e) == [fs |-> f, err |-> e]

Mkdir(f, p) ==
    LET r == Resolve(f, p, FALSE)
    IN CASE r.st = "ok" -> Res(f, "FileExistsError")
         [] r.st = "absent" -> Res([f EXCEPT ![r.loc] = DirNode(DefaultDirMode)], NoErr)
         [] OTHER -> Res(f, ErrOf(r.st))

RECURSIVE MakeDirs(_, _)
MakeDirs(f, p) ==
    IF p # Root /\ ~Exists(f, Front(p))
    THEN LET r == MakeDirs(f, Front(p))
         IN IF r.err \notin {NoErr, "FileExistsError"} THEN r ELSE Mkdir(r.fs, p)
    ELSE Mkdir(f, p)

WriteFile(f, p, d) ==
    LET r == Resolve(f, p, TRUE)
    IN CASE r.st = "ok" /\ f[r.loc].kind = "dir" -> Res(f, "IsADirectoryError")
         [] r.st = "ok" -> Res([f EXCEPT ![r.loc].data = d], NoErr)
         [] r.st = "absent" -> Res([f EXCEPT ![r.loc] = FileNode(DefaultFileMode, d)], NoErr)
         [] OTHER -> Res(f, ErrOf(r.st))

Remove(f, p) ==
    LET r == Resolve(f, p, FALSE)
    IN CASE r.st = "ok" /\ f[r.loc].kind = "dir" -> Res(f, "IsADirectoryError")
         [] r.st = "ok" -> Res([f EXCEPT ![r.loc] = Absent], NoErr)
         [] OTHER -> Res(f, ErrOf(r.st))

Symlink(f, t, p) ==
    LET r == Resolve(f, p, FALSE)
    IN CASE r.st = "ok" -> Res(f, "FileExistsError")
         [] r.st = "absent" -> Res([f EXCEPT ![r.loc] = LinkNode(t)], NoErr)
         [] OTHER -> Res(f, ErrOf(r.st))

Chmod(f, p, m) ==
    LET r == Resolve(f, p, TRUE)
    IN IF r.st = "ok" THEN Res([f EXCEPT ![r.loc].mode = m % 4096], NoErr)
       ELSE Res(f, ErrOf(r.st))

\* ----------------------------------------------------------- the archive
symlink == 10

\* external_attr is an unsigned 32-bit field; it is held as its two 16-bit
\* halves, hi * 2^16 + lo, and only shifts by 16 bits and more are taken.
Attr(h, l) == [hi |-> h, lo |-> l]

Shr(x, n) == x.hi \div (2 ^ (n - 16))

FileAttr == Attr(S_IFREG + 384, 0)
PermOnlyAttr == Attr(416, 32)
ZeroAttr == Attr(0, 32)
DirAttr == Attr(S_IFDIR + 448, 16)
DirZeroAttr == Attr(0, 16)
LinkAttr == Attr(S_IFLNK + 511, 0)

Entry(n, d, x, c) ==
    [filename |-> n, isdir |-> d, external_attr |-> x, content |-> c]

Entries ==
    {Entry(<< "b" >>, FALSE, FileAttr, << 98 >>),
     Entry(<< "b" >>, FALSE, ZeroAttr, << 98 >>),
     Entry(<< "a", "b" >>, FALSE, FileAttr, << 98 >>),
     Entry(<< "a", "b" >>, FALSE, PermOnlyAttr, << 98 >>),
     Entry(<< "b", "b" >>, FALSE, PermOnlyAttr, << 98 >>),
     Entry(<< "a" >>, TRUE, DirAttr, << >>),
     Entry(<< "a" >>, TRUE, DirZeroAttr, << >>),
     Entry(<< "b" >>, FALSE, LinkAttr, << 97 >>),
     Entry(<< "b" >>, FALSE, LinkAttr, << 98 >>),
     Entry(<< "b" >>, FALSE, LinkAttr, << 255 >>),
     Entry(<< "a", "b" >>, FALSE, LinkAttr, << 97 >>)}

Archives == UNION {[1..n -> Entries] : n \in 0..MaxEntries}

Permissions == {None, 0, 488}

InitTrees ==
    LET empty == [l \in Loc |-> Absent]
        bare == [empty EXCEPT ![Root] = DirNode(DefaultDirMode)]
    IN {empty, bare,
        [bare EXCEPT ![<< "b" >>] = LinkNode("a")],
        [bare EXCEPT ![<< "b" >>] = FileNode(384, << 97 >>)],
        [bare EXCEPT ![<< "b" >>] = DirNode(DefaultDirMode)]}

\* bytes.decode("utf8") on the bytes the archives here hold: an ASCII byte
\* is one character, a byte of 128 and above never starts a character.
CharOf(b) == CASE b = 97 -> "a" [] b = 98 -> "b" [] OTHER -> "?"

RECURSIVE DecodeText(_)
DecodeText(bytes) ==
    IF bytes = << >> THEN "" ELSE CharOf(Head(bytes)) \o DecodeText(Tail(bytes))

Utf8Decode(bytes) ==
    IF \E k \in 1..Len(bytes) : bytes[k] >= 128
    THEN [ok |-> FALSE, text |-> ""]
    ELSE [ok |-> TRUE, text |-> DecodeText(bytes)]

\* ZipFile.read(name): the member is looked up by name, and a name stored
\* more than once is bound to the entry stored last.
ZipRead(zip, name) ==
    LET same == {k \in 1..Len(zip) : zip[k].filename = name.filename
                                      /\ zip[k].isdir = name.isdir}
    IN zip[CHOOSE k \in same : \A j \in same : j <= k].content

\* ------------------------------------------------------------ the program
VARIABLES archive, wellFormed, permission, fs, zipExists, handleOpen, pc, i,
          extracted_path, err, chmods, fs0, fsPrev, placed, attrIn, symOut

vars == << archive, wellFormed, permission, fs, zipExists, handleOpen, pc, i,
           extracted_path, err, chmods, fs0, fsPrev, placed, attrIn, symOut >>

Ok == [kind |-> NoErr, stage |-> "", phase |-> 0, injected |-> FALSE]
Raise(k, s, n, inj) == [kind |-> k, stage |-> s, phase |-> n, injected |-> inj]

\* One system call of a handler: skipped when an earlier one has raised or
\* the code does not reach it; failed by the environment when fault names
\* it; otherwise it acts on the tree and may raise by itself.
Phase(r, k, fault, does, out) ==
    IF r.err.kind # NoErr \/ ~does THEN r
    ELSE IF fault = k THEN [r EXCEPT !.err = Raise("OSError", "entry", k, TRUE)]
    ELSE IF out.err # NoErr
         THEN [r EXCEPT !.fs = out.fs, !.err = Raise(out.err, "entry", k, FALSE)]
         ELSE [r EXCEPT !.fs = out.fs]

\* os.chmod(path, mode) as one system call, with a record of what it was
\* called on.
ChmodPhase(r, k, fault, does, path, mode, src, at) ==
    LET q == Phase(r, k, fault, does, Chmod(r.fs, path, mode))
        rec == [at |-> at, src |-> src, loc |-> Resolve(r.fs, path, TRUE).loc,
                mode |-> mode, link |-> IsLink(r.fs, path)]
    IN IF r.err.kind = NoErr /\ does /\ q.err.kind = NoErr
       THEN [q EXCEPT !.log = Append(q.log, rec)]
       ELSE q

is_symlink_at_least(file_info) == Shr(file_info.external_attr, 28) >= symlink

_is_symlink(file_info) == Shr(file_info.external_attr, 28) = symlink

\* ZipFile.extract(member, path)
ZipExtract(r, file_info, fault) ==
    LET p == file_info.filename
        r1 == Phase(r, 1, fault, ~Exists(r.fs, Front(p)), MakeDirs(r.fs, Front(p)))
    IN IF file_info.isdir
       THEN Phase(r1, 2, fault, ~IsDir(r1.fs, p), Mkdir(r1.fs, p))
       ELSE Phase(r1, 2, fault, TRUE, WriteFile(r1.fs, p, file_info.content))

ExtractSymlink(r, file_info, zip, fault) ==
    LET source == Utf8Decode(ZipRead(zip, file_info))
        link_name == file_info.filename
        leading_dirs == Front(link_name)
        r0 == IF source.ok THEN r
              ELSE [r EXCEPT !.err = Raise("UnicodeDecodeError", "entry", 0, FALSE)]
        r1 == Phase(r0, 1, fault, ~Exists(r0.fs, leading_dirs),
                    MakeDirs(r0.fs, leading_dirs))
        r2 == Phase(r1, 2, fault, LExists(r1.fs, link_name), Remove(r1.fs, link_name))
    IN Phase(r2, 3, fault, TRUE, Symlink(r2.fs, source.text, link_name))

_extract(r, file_info, zip, fault) ==
    IF ~_is_symlink(file_info)
    THEN ZipExtract(r, file_info, fault)
    ELSE ExtractSymlink(r, file_info, zip, fault)

Truthy(p) == p # None /\ p # 0

_override_permissions(r, path, perm, fault, src, at) ==
    ChmodPhase(r, 5, fault, Truthy(perm), path, perm, src, at)

set_permissions_low_half(r, zip_file_info, extracted, fault, at) ==
    LET perm == zip_file_info.external_attr.lo
    IN ChmodPhase(r, 4, fault, perm # 0, extracted, perm, "stored", at)

set_permissions_always(r, zip_file_info, extracted, fault, at) ==
    LET perm == Shr(zip_file_info.external_attr, 16)
    IN ChmodPhase(r, 4, fault, TRUE, extracted, perm, "stored", at)

_set_permissions(r, zip_file_info, extracted, fault, at) ==
    LET perm == Shr(zip_file_info.external_attr, 16)
    IN ChmodPhase(r, 4, fault, perm # 0, extracted, perm, "stored", at)

\* One iteration of the loop of unzip.
LoopBody(r, file_info, zip, perm, fault, at) ==
    LET e == _extract(r, file_info, zip, fault)
        path == file_info.filename
    IN IF e.err.kind = NoErr /\ ~IsLink(e.fs, path)
       THEN _override_permissions(_set_permissions(e, file_info, path, fault, at),
                                  path, perm, fault, "override", at)
       ELSE e

ZipRemovedOnFailure(z) == FALSE

\* What is left of the archive file when the call ends with an error.
ZipAfterFailure(z) == z

OsRemoveZipSkipped(z) == z

\* os.remove(zip_file_path)
OsRemoveZip(z) == FALSE

RootGuardAlways(f, last) == TRUE

\* Whether the code after the loop overrides the mode of output_dir.
RootGuard(f, last) == ~IsLink(f, last)

\* Where an extracted path ended up: the object it names, and whether the
\* path itself is a symbolic link.
Placement(f, p) == [loc |-> Resolve(f, p, TRUE).loc, link |-> IsLink(f, p)]

Init ==
    /\ wellFormed \in BOOLEAN
    /\ archive \in (IF wellFormed THEN Archives ELSE {<< >>})
    /\ permission \in Permissions
    /\ fs \in InitTrees
    /\ fs0 = fs
    /\ fsPrev = fs
    /\ zipExists = TRUE
    /\ handleOpen = FALSE
    /\ pc = "start"
    /\ i = 0
    /\ extracted_path = Unbound
    /\ err = Ok
    /\ chmods = << >>
    /\ placed = << >>
    /\ attrIn = Attr(0, 0)
    /\ symOut = FALSE

Fail(e) ==
    /\ pc' = "raised"
    /\ err' = e
    /\ handleOpen' = FALSE
    /\ zipExists' = ZipAfterFailure(zipExists)

\* zipfile.ZipFile(zip_file_path, "r")
Open ==
    /\ pc = "start"
    /\ \E fault \in BOOLEAN :
         IF fault THEN Fail(Raise("OSError", "open", 0, TRUE))
         ELSE IF ~wellFormed THEN Fail(Raise("BadZipFile", "open", 0, FALSE))
         ELSE /\ pc' = "loop"
              /\ handleOpen' = TRUE
              /\ UNCHANGED << err, zipExists >>
    /\ UNCHANGED << archive, wellFormed, permission, fs, i, extracted_path,
                    chmods, fs0, fsPrev, placed, attrIn, symOut >>

ProcessEntry ==
    /\ pc = "loop"
    /\ i < Len(archive)
    /\ \E fault \in 0..5 :
         LET r == LoopBody([fs |-> fs, err |-> Ok, log |-> chmods],
                           archive[i + 1], archive, permission, fault, i + 1)
         IN /\ fs' = r.fs
            /\ chmods' = r.log
            /\ IF r.err.kind # NoErr
               THEN /\ Fail(r.err)
                    /\ UNCHANGED << i, extracted_path, fsPrev, placed >>
               ELSE /\ i' = i + 1
                    /\ extracted_path' = archive[i + 1].filename
                    /\ fsPrev' = r.fs
                    /\ placed' = Append(placed, Placement(r.fs, extracted_path'))
                    /\ UNCHANGED << pc, err, handleOpen, zipExists >>
    /\ UNCHANGED << archive, wellFormed, permission, fs0, attrIn, symOut >>

\* Leaving the with block after the last entry closes the archive.
ExitWith ==
    /\ pc = "loop"
    /\ i = Len(archive)
    /\ pc' = "root"
    /\ handleOpen' = FALSE
    /\ UNCHANGED << archive, wellFormed, permission, fs, zipExists, i,
                    extracted_path, err, chmods, fs0, fsPrev, placed, attrIn, symOut >>

RootOverride ==
    /\ pc = "root"
    /\ \E fault \in {0, 5} :
         IF extracted_path = Unbound
         THEN /\ Fail(Raise("UnboundLocalError", "root", 0, FALSE))
              /\ UNCHANGED << fs, chmods >>
         ELSE LET r0 == [fs |-> fs, err |-> Ok, log |-> chmods]
                  r == IF RootGuard(fs, extracted_path)
                       THEN _override_permissions(r0, Root, permission, fault, "root", 0)
                       ELSE r0
              IN /\ fs' = r.fs
                 /\ chmods' = r.log
                 /\ IF r.err.kind # NoErr
                    THEN Fail([r.err EXCEPT !.stage = "root"])
                    ELSE /\ pc' = "remove"
                         /\ UNCHANGED << err, handleOpen, zipExists >>
    /\ UNCHANGED << archive, wellFormed, permission, i, extracted_path,
                    fs0, fsPrev, placed, attrIn, symOut >>

RemoveZip ==
    /\ pc = "remove"
    /\ \E fault \in BOOLEAN :
         IF fault
         THEN /\ pc' = "raised"
              /\ err' = Raise("OSError", "remove", 0, TRUE)
              /\ UNCHANGED zipExists
         ELSE /\ pc' = "done"
              /\ zipExists' = OsRemoveZip(zipExists)
              /\ UNCHANGED err
    /\ UNCHANGED << archive, wellFormed, permission, fs, handleOpen, i,
                    extracted_path, chmods, fs0, fsPrev, placed, attrIn, symOut >>

Next == Open \/ ProcessEntry \/ ExitWith \/ RootOverride \/ RemoveZip

Spec == Init /\ [][Next]_vars

\* ------------------------------------------- the classification helper
\* _is_symlink applied to one external_attr value, for every top nibble and
\* a sample of the other 28 bits.
AttrSamples ==
    {Attr(n * 4096 + r, l) : n \in 0..15, r \in {0, 1, 511, 4095}, l \in {0, 65535}}

InitSym ==
    /\ wellFormed = TRUE
    /\ archive = << >>
    /\ permission = None
    /\ fs = [l \in Loc |-> Absent]
    /\ fs0 = fs
    /\ fsPrev = fs
    /\ zipExists = TRUE
    /\ handleOpen = FALSE
    /\ pc = "classify"
    /\ i = 0
    /\ extracted_path = Unbound
    /\ err = Ok
    /\ chmods = << >>
    /\ placed = << >>
    /\ attrIn \in AttrSamples
    /\ symOut = FALSE

Classify ==
    /\ pc = "classify"
    /\ symOut' = _is_symlink([external_attr |-> attrIn])
    /\ pc' = "classified"
    /\ UNCHANGED << archive, wellFormed, permission, fs, zipExists, handleOpen, i,
                    extracted_path, err, chmods, fs0, fsPrev, placed, attrIn >>

NextSym == Classify

SpecSym == InitSym /\ [][NextSym]_vars

\* ================================================================ claims
Bit(x, k) == (x.hi \div (2 ^ (k - 16))) % 2

Entries1 == 1..Len(archive)

\* C1: whenever unzip returns, the archive file is gone, and its deletion is
\* the last step: it is the step that ends the call, taken only after every
\* entry has been processed and the archive handle has been closed.
C1_DeletionIsLastStep ==
    /\ [](pc = "done" => ~zipExists /\ ~handleOpen /\ i = Len(archive))
    /\ [][(zipExists /\ ~zipExists') =>
            (pc = "remove" /\ pc' = "done" /\ ~handleOpen /\ i = Len(archive))]_vars

C1_Witness ==
    pc = "done" /\ ~zipExists /\ i = Len(archive) /\ i >= 2

\* Every location an entry may touch: the leading directories of its path
\* and the objects the path names.
Footprint(f, file_info) ==
    {SubSeq(file_info.filename, 1, n) : n \in 0..Len(file_info.filename)}
    \cup {Resolve(f, file_info.filename, TRUE).loc,
          Resolve(f, file_info.filename, FALSE).loc}

\* C2: a failure before the deletion step is raised to the caller with the
\* archive file kept and the handle closed, and nothing is rolled back: a
\* failure while opening leaves the tree as it was, a failure in entry k
\* leaves the tree of the entries before k changed at most where entry k
\* acts, and a failure after the loop leaves the tree of all entries.
C2_FailureKeepsArchiveAndTree ==
    (pc = "raised" /\ err.stage # "remove") =>
        /\ err.kind # NoErr
        /\ zipExists
        /\ ~handleOpen
        /\ (err.stage = "open" => fs = fs0)
        /\ (err.stage = "root" => fs = fsPrev)
        /\ (err.stage = "entry" =>
              \A l \in Loc :
                 fs[l] # fsPrev[l] => l \in Footprint(fsPrev, archive[i + 1]))

C2_Witness ==
    /\ pc = "raised"
    /\ err.stage = "entry"
    /\ i = 1
    /\ fsPrev # fs0
    /\ fs # fsPrev
    /\ zipExists

\* C6: _is_symlink is true exactly when bits 31..28 of external_attr are
\* 1010, whatever the other 28 bits are, and applying it changes nothing else.
C6_ClassifiesByTopNibble ==
    /\ [](pc = "classified" =>
            (symOut <=> (Bit(attrIn, 31) = 1 /\ Bit(attrIn, 30) = 0
                         /\ Bit(attrIn, 29) = 1 /\ Bit(attrIn, 28) = 0)))
    /\ [][pc = "classify" =>
            UNCHANGED << fs, zipExists, handleOpen, chmods, attrIn >>]_vars

C6_Witness ==
    pc = "classified" /\ symOut /\ attrIn.lo = 65535 /\ attrIn.hi % 4096 = 4095

RootRecs == {k \in 1..Len(chmods) : chmods[k].src = "root"}

NewRecs == {chmods'[k] : k \in (Len(chmods) + 1)..Len(chmods')}

Cur == archive[i + 1]

InLoop == pc = "loop" /\ i < Len(archive)

\* C3: with a (non-zero) override and a successful call, the output
\* directory and every regular file and directory an entry's path names end
\* with the override as their mode, and no chmod was issued on a symlink.
C3_OverrideReachesEveryPath ==
    (pc = "done" /\ Truthy(permission)) =>
        /\ fs[Root].mode = permission
        /\ \A k \in Entries1 :
              LET r == Resolve(fs, archive[k].filename, FALSE)
              IN (r.st = "ok" /\ fs[r.loc].kind \in {"file", "dir"})
                    => fs[r.loc].mode = permission
        /\ \A k \in 1..Len(chmods) : ~chmods[k].link

\* C4 as written: after a successful call without override, the path of
\* every non-symlink entry with non-zero upper 16 bits has a mode equal to
\* those 16 bits.
C4_ModeIsUpper16Bits ==
    (pc = "done" /\ permission = None) =>
        \A k \in Entries1 :
           LET e == archive[k]
               r == Resolve(fs, e.filename, TRUE)
           IN (~_is_symlink(e) /\ Shr(e.external_attr, 16) # 0 /\ r.st = "ok")
                 => StMode(fs[r.loc]) = Shr(e.external_attr, 16)

\* The entries extracted to the object at l with stored permission bits.
StoredAt(l) ==
    {k \in 1..Len(placed) :
        /\ placed[k].loc = l
        /\ ~placed[k].link
        /\ ~_is_symlink(archive[k])
        /\ Shr(archive[k].external_attr, 16) # 0}

Last(S) == CHOOSE k \in S : \A j \in S : j <= k

\* C4 amended: after a successful call without override, every regular
\* file and directory carries the low 12 bits of external_attr >> 16 of the
\* last entry with non-zero upper bits whose path, not itself a symlink, was
\* extracted to that object; and an entry changes the permission bits of an
\* object only if its own path names that object.
C4_StoredPermissionBitsKept ==
    /\ []((pc = "done" /\ permission = None) =>
            \A l \in Loc :
               (StoredAt(l) # {} /\ fs[l].kind \in {"file", "dir"}) =>
                  fs[l].mode = Shr(archive[Last(StoredAt(l))].external_attr, 16) % 4096)
    /\ [][InLoop =>
            \A l \in Loc :
               (fs[l].kind \in {"file", "dir"} /\ fs'[l].kind = fs[l].kind
                /\ fs'[l].mode # fs[l].mode)
                  => Resolve(fs', Cur.filename, TRUE).loc = l]_vars

C4_Witness ==
    /\ pc = "done"
    /\ permission = None
    /\ Len(archive) = 2
    /\ archive[1].filename # archive[2].filename
    /\ placed[1].loc = placed[2].loc
    /\ StoredAt(placed[1].loc) = {1, 2}
    /\ fs[placed[1].loc].mode = 416

DefaultMode(file_info) == IF file_info.isdir THEN DefaultDirMode ELSE DefaultFileMode

ZeroModeEntry == InLoop /\ ~_is_symlink(Cur) /\ Shr(Cur.external_attr, 16) = 0

\* C5 as written: a non-symlink entry with zero upper 16 bits, processed
\* without override, leaves its path at the default creation mode.
C5_ZeroModeLeavesDefault ==
    [][(ZeroModeEntry /\ i' = i + 1 /\ permission = None) =>
          LET r == Resolve(fs', Cur.filename, TRUE)
          IN r.st = "ok" /\ fs'[r.loc].mode = DefaultMode(Cur)]_vars

\* C5 amended: a non-symlink entry with zero upper 16 bits never raises in
\* permission restoration and issues no chmod from stored metadata; once it
\* is extracted the loop goes on to the next entry unless the override
\* chmod fails, and without override its path keeps the mode extraction
\* left: the default creation mode if the entry created the object, the
\* mode the object already had if it existed.
C5_ZeroModeSkipsRestoration ==
    [][ZeroModeEntry =>
          /\ err'.phase # 4
          /\ \A c \in NewRecs : c.src # "stored"
          /\ (err'.kind # NoErr => err'.phase \in {1, 2, 5})
          /\ (err'.kind = NoErr => i' = i + 1)
          /\ (i' = i + 1 /\ ~Truthy(permission) =>
                LET before == Resolve(fs, Cur.filename, TRUE)
                    after == Resolve(fs', Cur.filename, TRUE)
                IN /\ after.st = "ok"
                   /\ fs'[after.loc].mode =
                        IF before.st = "ok" THEN fs[before.loc].mode
                        ELSE DefaultMode(Cur))]_vars

C5_Witness ==
    /\ i >= 1
    /\ permission = None
    /\ ~_is_symlink(archive[1])
    /\ Shr(archive[1].external_attr, 16) = 0
    /\ archive[1].filename = << "b" >>
    /\ fs0[<< "b" >>].kind = "file"
    /\ fs[<< "b" >>].mode = 384
    /\ fs[<< "b" >>].data = archive[1].content

OwnTarget(file_info) == Utf8Decode(file_info.content)

\* C7: a symlink entry whose link path holds a regular file or a symlink is
\* processed without error (the environment failing no call): the object
\* is replaced by a symlink whose target is the entry's own content.
C7_OccupiedLinkPathIsReplaced ==
    [][(/\ InLoop
        /\ _is_symlink(Cur)
        /\ OwnTarget(Cur).ok
        /\ LExists(fs, Cur.filename)
        /\ fs[Resolve(fs, Cur.filename, FALSE).loc].kind \in {"file", "link"}
        /\ ~err'.injected)
          => /\ i' = i + 1
             /\ fs'[Resolve(fs, Cur.filename, FALSE).loc]
                   = LinkNode(OwnTarget(Cur).text)]_vars

\* C8: a symlink entry whose parent directory does not exist is processed
\* without error (the environment failing no call): every leading directory
\* exists afterwards and the link holds the entry's own content as target.
C8_MissingParentsAreCreated ==
    [][(/\ InLoop
        /\ _is_symlink(Cur)
        /\ OwnTarget(Cur).ok
        /\ ~LExists(fs, Front(Cur.filename))
        /\ ~err'.injected)
          => /\ i' = i + 1
             /\ \A n \in 0..(Len(Cur.filename) - 1) :
                   fs'[SubSeq(Cur.filename, 1, n)].kind = "dir"
             /\ fs'[Cur.filename] = LinkNode(OwnTarget(Cur).text)]_vars

AfterLoop == pc \in {"remove", "done"}

FilesystemErrors ==
    {"OSError", "FileExistsError", "FileNotFoundError", "NotADirectoryError",
     "IsADirectoryError"}

\* C10: a call on a well-formed archive of any length, zero included, ends
\* in an error only if a filesystem operation failed (or the content of a
\* symlink entry is not text).
C10_WellFormedArchiveSucceeds ==
    (pc = "raised" /\ wellFormed) =>
        err.kind \in FilesystemErrors \cup {"UnicodeDecodeError"}

====
